---- MODULE Spec2Model ----
(***************************************************************************)
(* Verification model of the flowsheet glue code of watertap-reflo:        *)
(*   - KBHDP_RPT_3.solve                         (solver status handling)  *)
(*   - FlatPlatePySAM.initialize                 (unit initialization)     *)
(*   - create_multiperiod_pv_battery_model       (multiperiod linking)     *)
(*   - build_med_md_flowsheet / fix_dof_and_initialize                     *)
(*   - the MED-TVC and FO draw-solution tests                              *)
(* Each behaviour runs one entry point, selected by prog.                  *)
(***************************************************************************)
EXTENDS Integers, Sequences, FiniteSets

VARIABLES
    prog,        \* the entry point this run executes
    solve_call,  \* KBHDP_RPT_3.solve: the last call and what it produced
    fp_call,     \* FlatPlatePySAM.initialize: the last call and what it produced
    mp,          \* the multiperiod PV/battery model: arguments, blocks, links
    mp_sol,      \* a solution of the multiperiod model: one value record per block
    md_fs,       \* the MED + VAGMD flowsheet built by build_med_md_flowsheet
    md_init,     \* fix_dof_and_initialize: how far it got and what it did
    med_tvc,     \* MEDTVCSurrogate.number_effects and the last set_value on it
    fo,          \* FO draw-solution state block: what is constructed, what was demanded
    fo_params,   \* FODrawSolutionParameterBlock: the sets it declares
    pm,          \* run_permian_st2_md: position, arcs, event log, results
    kb,          \* build_sweep / main of KBHDP_RPT_3: position, event log, solves, costing variables
    mp_lcow      \* value(mp.LCOW) after the solve: the grid costs read and the value

vars ==
    <<prog, solve_call, fp_call, mp, mp_sol, md_fs, md_init, med_tvc, fo, fo_params, pm, kb, mp_lcow>>

Programs ==
    {"kbhdp", "flat_plate", "multiperiod", "med_md", "med_tvc_test", "fo_test", "permian", "kbhdp_flow"}

(***************************************************************************)
(* Solver results (pyomo SolverResults): solver status and termination     *)
(* condition.  "raised" stands for a solver.solve call that raises instead *)
(* of returning results.                                                   *)
(***************************************************************************)
NoResults == [status |-> "none", termination_condition |-> "none"]

SolverResults ==
    { [status |-> "ok",      termination_condition |-> "optimal"],
      [status |-> "ok",      termination_condition |-> "locallyOptimal"],
      [status |-> "warning", termination_condition |-> "infeasible"],
      [status |-> "warning", termination_condition |-> "maxIterations"],
      [status |-> "error",   termination_condition |-> "error"] }

SolverRaised == [status |-> "raised", termination_condition |-> "none"]

check_optimal_termination(results) ==
    /\ results.status = "ok"
    /\ results.termination_condition \in {"optimal", "locallyOptimal", "globallyOptimal"}

(***************************************************************************)
(* KBHDP_RPT_3.solve                                                       *)
(***************************************************************************)
msg == "The current configuration is infeasible. Please adjust the decision variables."

max_iter == 1000

get_solver(optarg) == [name |-> "default", options |-> optarg]

SolverArgs == {"None", "given"}

solve_mutant_always_raise(m, solver, raise_on_failure, results) ==
    LET opt == IF solver = "None" THEN "default" ELSE solver
        head == <<"SOLVING">>
    IN  IF results = SolverRaised
        THEN [outcome |-> "solver_exception", ret |-> NoResults, exc |-> "",
              solver |-> opt, max_iter |-> max_iter, printed |-> head]
        ELSE IF check_optimal_termination(results)
        THEN [outcome |-> "return", ret |-> results, exc |-> "",
              solver |-> opt, max_iter |-> max_iter,
              printed |-> head \o <<"OPTIMAL SOLVE">>]
        ELSE [outcome |-> "RuntimeError", ret |-> NoResults, exc |-> msg,
              solver |-> opt, max_iter |-> max_iter,
              printed |-> head \o <<"print_infeasible_bounds", "print_close_to_bounds">>]

\* solve(m, solver, tee, raise_on_failure): results is what solver.solve gives.
solve(m, solver, raise_on_failure, results) ==
    LET opt == IF solver = "None" THEN "default" ELSE solver
        head == <<"SOLVING">>
    IN  IF results = SolverRaised
        THEN [outcome |-> "solver_exception", ret |-> NoResults, exc |-> "",
              solver |-> opt, max_iter |-> max_iter, printed |-> head]
        ELSE IF check_optimal_termination(results)
        THEN [outcome |-> "return", ret |-> results, exc |-> "",
              solver |-> opt, max_iter |-> max_iter,
              printed |-> head \o <<"OPTIMAL SOLVE">>]
        ELSE IF raise_on_failure
        THEN [outcome |-> "RuntimeError", ret |-> NoResults, exc |-> msg,
              solver |-> opt, max_iter |-> max_iter,
              printed |-> head \o <<"print_infeasible_bounds", "print_close_to_bounds">>]
        ELSE [outcome |-> "return", ret |-> results, exc |-> "",
              solver |-> opt, max_iter |-> max_iter,
              printed |-> head \o <<msg>>]

NoSolveCall ==
    [called |-> FALSE, m |-> "none", raise_on_failure |-> TRUE, results |-> NoResults,
     out |-> [outcome |-> "none", ret |-> NoResults, exc |-> "", solver |-> "none",
              max_iter |-> 0, printed |-> <<>>]]

SolveModels == {"m", "m.fs.treatment.md"}

KBHDP_solve ==
    /\ prog = "kbhdp"
    /\ \E m \in SolveModels, solver \in SolverArgs, raise_on_failure \in BOOLEAN,
          results \in SolverResults \cup {SolverRaised} :
          solve_call' = [called |-> TRUE, m |-> m, raise_on_failure |-> raise_on_failure,
                         results |-> results,
                         out |-> solve(m, solver, raise_on_failure, results)]
    /\ UNCHANGED <<prog, fp_call, mp, mp_sol, md_fs, md_init, med_tvc, fo, fo_params, pm, kb, mp_lcow>>

(***************************************************************************)
(* FlatPlatePySAM.initialize                                               *)
(***************************************************************************)
initialize_mutant_no_raise(solver, optarg, res) ==
    IF solver = "None"
    THEN [outcome |-> "None", opt |-> get_solver(optarg).name, res |-> res,
          log |-> <<"Initialization Step 2", "Initialization Complete">>]
    ELSE [outcome |-> "UnboundLocalError", opt |-> "unbound", res |-> NoResults,
          log |-> <<>>]

\* initialize(outlvl, solver, optarg): opt is bound only when solver is None.
initialize(solver, optarg, res) ==
    IF solver = "None"
    THEN IF ~check_optimal_termination(res)
         THEN [outcome |-> "InitializationError", opt |-> get_solver(optarg).name,
               res |-> res, log |-> <<"Initialization Step 2">>]
         ELSE [outcome |-> "None", opt |-> get_solver(optarg).name, res |-> res,
               log |-> <<"Initialization Step 2", "Initialization Complete">>]
    ELSE [outcome |-> "UnboundLocalError", opt |-> "unbound", res |-> NoResults,
          log |-> <<>>]

NoFpCall ==
    [called |-> FALSE, solver |-> "None", optarg |-> "None",
     out |-> [outcome |-> "none", opt |-> "none", res |-> NoResults, log |-> <<>>]]

OptArgs == {"None", "options"}

FlatPlate_initialize ==
    /\ prog = "flat_plate"
    /\ \E solver \in SolverArgs, optarg \in OptArgs, res \in SolverResults :
          fp_call' = [called |-> TRUE, solver |-> solver, optarg |-> optarg,
                      out |-> initialize(solver, optarg, res)]
    /\ UNCHANGED <<prog, solve_call, mp, mp_sol, md_fs, md_init, med_tvc, fo, fo_params, pm, kb, mp_lcow>>

(***************************************************************************)
(* create_multiperiod_pv_battery_model                                     *)
(* Python lists are 0-based: list[t] is the sequence element t + 1.        *)
(* Prices are in cents per kWh.                                            *)
(***************************************************************************)
MaxN == 3

DefaultGHI ==
    <<0, 0, 0, 0, 0, 23, 170, 386, 596, 784, 939, 1031,
      1062, 1031, 938, 790, 599, 383, 166, 31, 0, 0, 0, 0>>

DefaultElecPrice == [i \in 1..24 |-> 7]

ro_capacity == 6000

\* the defaults, and the lists PV_RO_battery_demo.py passes (the same GHI, and
\* 0.14 for each of the 24 hours)
GHIInputs == {DefaultGHI}

ElecPriceInputs == {DefaultElecPrice, [i \in 1..24 |-> 14]}

\* numbers of periods tried: the small ones, and one more than the default data has
NTimePoints == (1..MaxN) \cup {Len(DefaultGHI) + 1}

BlockVars ==
    {"state_of_charge", "initial_state_of_charge",
     "energy_throughput", "initial_energy_throughput",
     "nameplate_power", "nameplate_energy", "pv_size"}

\* two values are enough to tell equal from unequal
Values == {0, 1}

BlockVals == [BlockVars -> Values]

VarRef(t, v) == [blk |-> t, var |-> v]

get_pv_ro_variable_pairs_mutant_no_pv(t1, t2) ==
    << <<VarRef(t1, "state_of_charge"),   VarRef(t2, "initial_state_of_charge")>>,
       <<VarRef(t1, "energy_throughput"), VarRef(t2, "initial_energy_throughput")>>,
       <<VarRef(t1, "nameplate_power"),   VarRef(t2, "nameplate_power")>>,
       <<VarRef(t1, "nameplate_energy"),  VarRef(t2, "nameplate_energy")>> >>

get_pv_ro_variable_pairs(t1, t2) ==
    << <<VarRef(t1, "state_of_charge"),   VarRef(t2, "initial_state_of_charge")>>,
       <<VarRef(t1, "energy_throughput"), VarRef(t2, "initial_energy_throughput")>>,
       <<VarRef(t1, "nameplate_power"),   VarRef(t2, "nameplate_power")>>,
       <<VarRef(t1, "nameplate_energy"),  VarRef(t2, "nameplate_energy")>>,
       <<VarRef(t1, "pv_size"),           VarRef(t2, "pv_size")>> >>

Range(seq) == {seq[i] : i \in DOMAIN seq}

\* MultiPeriodModel: one equality constraint per pair that the linking function
\* returns for blocks t and t + 1
LinkConstraints(n_time_points) ==
    UNION { Range(get_pv_ro_variable_pairs(t, t + 1)) : t \in 0..(n_time_points - 2) }

\* the dict comprehension over range(n_time_points): GHI[t] and elec_price[t]
IndexErrorAt(n_time_points, GHI, elec_price) ==
    \E t \in 0..(n_time_points - 1) : t >= Len(GHI) \/ t >= Len(elec_price)

flowsheet_options(n_time_points, GHI, elec_price) ==
    [i \in 1..n_time_points |->
        [GHI |-> GHI[i], elec_price |-> elec_price[i], ro_capacity |-> ro_capacity]]

NoMp ==
    [status |-> "none", n_time_points |-> 0, GHI |-> <<>>, elec_price |-> <<>>,
     blocks |-> <<>>, links |-> {}, fixed |-> {}]

create_multiperiod_pv_battery_model(n_time_points, GHI, elec_price) ==
    IF IndexErrorAt(n_time_points, GHI, elec_price)
    THEN [status |-> "IndexError", n_time_points |-> n_time_points,
          GHI |-> GHI, elec_price |-> elec_price,
          blocks |-> <<>>, links |-> {}, fixed |-> {}]
    ELSE [status |-> "built", n_time_points |-> n_time_points,
          GHI |-> GHI, elec_price |-> elec_price,
          blocks |-> flowsheet_options(n_time_points, GHI, elec_price),
          links |-> LinkConstraints(n_time_points),
          fixed |-> { [ref |-> VarRef(0, "initial_state_of_charge"), val |-> 0],
                      [ref |-> VarRef(0, "initial_energy_throughput"), val |-> 0] }]

CreateMultiperiod ==
    /\ prog = "multiperiod"
    /\ mp.status = "none"
    /\ \E n_time_points \in NTimePoints, GHI \in GHIInputs, elec_price \in ElecPriceInputs :
          mp' = create_multiperiod_pv_battery_model(n_time_points, GHI, elec_price)
    /\ UNCHANGED <<prog, solve_call, fp_call, mp_sol, md_fs, md_init, med_tvc, fo, fo_params, pm, kb, mp_lcow>>

\* Block t (values b) is consistent with block t - 1 (values prev) and the fixes.
BlockFeasible(model, prev, b, t) ==
    /\ \A f \in model.fixed : f.ref.blk = t => b[f.ref.var] = f.val
    /\ \A p \in model.links :
          (p[1].blk = t - 1 /\ p[2].blk = t) => prev[p[1].var] = b[p[2].var]

RECURSIVE Solutions(_, _)
\* all assignments to blocks 0..k-1 that satisfy the fixes and link constraints
Solutions(model, k) ==
    IF k = 0 THEN { <<>> }
    ELSE UNION { { Append(s, b) :
                     b \in { c \in BlockVals :
                               BlockFeasible(model,
                                             IF k = 1 THEN c ELSE s[k - 1], c, k - 1) } } :
                 s \in Solutions(model, k - 1) }

\* results = solver.solve(mp), once after the model is created: any feasible
\* point may come back
SolveMultiperiod ==
    /\ prog = "multiperiod"
    /\ mp.status = "built"
    /\ mp_sol = <<>>
    /\ \E sol \in Solutions(mp, mp.n_time_points) : mp_sol' = sol
    /\ UNCHANGED <<prog, solve_call, fp_call, mp, md_fs, md_init, med_tvc, fo, fo_params, pm, kb, mp_lcow>>

(***************************************************************************)
(* build_med_md_flowsheet and fix_dof_and_initialize                       *)
(* dt is in seconds on input; computed time steps are kept in centiseconds.*)
(***************************************************************************)
NoneDt == -1

DtInputs == {NoneDt, 0, 30}

Phases == {"processing", "refilling"}

module_type == "AS26C7.2L"

\* feed flow of the VAGMD module set by fix_dof_and_initialize, L/h
vagmd_feed_flow == 600

add_processing_phase_constraint(phase, dt) ==
    [components |-> {"volume_in_tank", "volume_in_tank_previous", "dt"}
                    \cup (IF phase = "processing"
                          THEN {"eq_dt", "eq_S2_remained_volume", "eq_S2_to_vagmd",
                                "eq_tank_volume"}
                          ELSE IF phase = "refilling"
                          THEN {"eq_separator_overflow", "eq_S2_to_vagmd",
                                "eq_S2_remained_volume"}
                          ELSE {}),
     fixed |-> IF phase = "refilling" THEN {"volume_in_tank"} ELSE {},
     eq_dt_rule |-> IF phase # "processing" THEN "none"
                    ELSE IF dt # NoneDt /\ dt # 0 THEN "dt"
                    ELSE IF module_type = "AS7C1.5L" THEN "AS7C1.5L"
                    ELSE "AS26C7.2L"]

build_med_md_flowsheet(phase, dt) ==
    LET cons == add_processing_phase_constraint(phase, dt)
    IN  [built |-> TRUE, phase |-> phase, dt |-> dt,
         components |-> {"liquid_prop", "vapor_prop", "med", "S1", "M1", "vagmd", "S2",
                         "separator_to_mixer", "vagmd_to_mixer"} \cup cons.components,
         fixed |-> cons.fixed,
         eq_dt_rule |-> cons.eq_dt_rule]

NoFs ==
    [built |-> FALSE, phase |-> "none", dt |-> NoneDt, components |-> {},
     fixed |-> {}, eq_dt_rule |-> "none"]

\* calculate_variable_from_constraint(m.fs.dt, m.fs.eq_dt), in centiseconds
dt_from_eq_dt(fs) ==
    IF fs.eq_dt_rule = "dt" THEN fs.dt * 100
    ELSE IF fs.eq_dt_rule = "AS7C1.5L" THEN 2035255 \div vagmd_feed_flow
    ELSE 7326919 \div vagmd_feed_flow

\* the statements of fix_dof_and_initialize in order: the flowsheet components a
\* statement reads, the unit it initializes, the variable it fixes
InitSteps ==
    << [needs |-> {"volume_in_tank", "volume_in_tank_previous"}, unit |-> "", fix |-> ""],
       [needs |-> {"dt"},            unit |-> "",      fix |-> ""],
       [needs |-> {"med"},           unit |-> "med",   fix |-> ""],
       [needs |-> {"S1"},            unit |-> "S1",    fix |-> ""],
       [needs |-> {"vagmd"},         unit |-> "",      fix |-> ""],
       [needs |-> {"vagmd"},         unit |-> "vagmd", fix |-> ""],
       [needs |-> {"dt", "eq_dt"},   unit |-> "",      fix |-> ""],
       [needs |-> {"M1", "dt"},      unit |-> "",      fix |-> ""],
       [needs |-> {"M1"},            unit |-> "M1",    fix |-> ""],
       [needs |-> {"S2"},            unit |-> "S2",    fix |-> ""],
       [needs |-> {"volume_in_tank_previous"}, unit |-> "",
        fix |-> "volume_in_tank_previous"] >>

NoMdInit ==
    [called |-> FALSE, outcome |-> "none", initialized |-> <<>>, fixed |-> {},
     dt_value |-> 0, missing |-> {}]

RECURSIVE RunInitSteps(_, _, _)
\* runs statement i and the following ones; a statement that reads a component
\* the flowsheet does not have raises AttributeError and ends the call
RunInitSteps(fs, i, acc) ==
    IF i > Len(InitSteps) THEN [acc EXCEPT !.outcome = "ok"]
    ELSE LET st == InitSteps[i]
         IN  IF ~(st.needs \subseteq fs.components)
             THEN [acc EXCEPT !.outcome = "AttributeError",
                              !.missing = st.needs \ fs.components]
             ELSE RunInitSteps(fs, i + 1,
                    [acc EXCEPT
                       !.initialized = IF st.unit = "" THEN @ ELSE Append(@, st.unit),
                       !.fixed = IF st.fix = "" THEN @ ELSE @ \cup {st.fix},
                       !.dt_value = IF "eq_dt" \in st.needs THEN dt_from_eq_dt(fs) ELSE @])

fix_dof_and_initialize(fs) ==
    RunInitSteps(fs, 1, [NoMdInit EXCEPT !.called = TRUE, !.fixed = fs.fixed])

BuildMedMd ==
    /\ prog = "med_md"
    /\ ~md_fs.built
    /\ \E phase \in Phases, dt \in DtInputs : md_fs' = build_med_md_flowsheet(phase, dt)
    /\ UNCHANGED <<prog, solve_call, fp_call, mp, mp_sol, md_init, med_tvc, fo, fo_params, pm, kb, mp_lcow>>

FixDofAndInitialize ==
    /\ prog = "med_md"
    /\ md_fs.built
    /\ md_init' = fix_dof_and_initialize(md_fs)
    /\ UNCHANGED <<prog, solve_call, fp_call, mp, mp_sol, md_fs, med_tvc, fo, fo_params, pm, kb, mp_lcow>>

(***************************************************************************)
(* MEDTVCSurrogate.number_effects, a mutable Param with a domain           *)
(***************************************************************************)
\* The Param is declared with the unit model; test_num_effects_domain shows that
\* 100 lies outside fs.med_tvc.number_effects_domain.
number_effects_domain == {8, 10, 12, 14, 16}

number_effects_default == 12

SetValueInputs == number_effects_domain \cup {9, 100}

NoError == [type |-> "none", param |-> "", value |-> 0, domain |-> ""]

Param_set_value_mutant_unchecked(p, v) ==
    [number_effects |-> v, attempted |-> v, error |-> NoError]

\* Param.set_value: the value is validated against the domain before it is stored
Param_set_value(p, v) ==
    IF v \in number_effects_domain
    THEN [number_effects |-> v, attempted |-> v, error |-> NoError]
    ELSE [number_effects |-> p.number_effects, attempted |-> v,
          error |-> [type |-> "ValueError", param |-> "fs.med_tvc.number_effects",
                     value |-> v, domain |-> "fs.med_tvc.number_effects_domain"]]

SetNumberEffects ==
    /\ prog = "med_tvc_test"
    /\ \E v \in SetValueInputs : med_tvc' = Param_set_value(med_tvc, v)
    /\ UNCHANGED <<prog, solve_call, fp_call, mp, mp_sol, md_fs, md_init, fo, fo_params, pm, kb, mp_lcow>>

(***************************************************************************)
(* FO draw-solution state block: properties are built on demand            *)
(***************************************************************************)
StateVars == {"flow_mass_phase_comp", "temperature", "pressure"}

OnDemandProperties ==
    {"dens_mass_phase", "cp_mass_phase", "pressure_osm_phase", "flow_vol_phase",
     "conc_mass_phase_comp", "mass_frac_phase_comp"}

\* the on-demand properties that the construction method of a property reads
MethodReads(p) ==
    IF p = "mass_frac_phase_comp" THEN {}
    ELSE IF p \in {"dens_mass_phase", "cp_mass_phase", "pressure_osm_phase"}
    THEN {"mass_frac_phase_comp"}
    ELSE IF p = "flow_vol_phase" THEN {"dens_mass_phase"}
    ELSE {"dens_mass_phase", "mass_frac_phase_comp"}

RECURSIVE Constructs(_)
\* everything that gets constructed when property p is accessed
Constructs(p) == {p} \cup UNION { Constructs(q) : q \in MethodReads(p) }

NoFo == [built |-> FALSE, constructed |-> {}, demanded |-> {}]

build_state_block_mutant_eager(f) ==
    [built |-> TRUE, constructed |-> StateVars \cup {"mass_frac_phase_comp"},
     demanded |-> {}]

build_state_block(f) ==
    [built |-> TRUE, constructed |-> StateVars, demanded |-> {}]

\* hasattr / getattr of an on-demand property on the state block
demand_property(f, p) ==
    [f EXCEPT !.constructed = @ \cup Constructs(p), !.demanded = @ \cup {p}]

BuildStateBlock ==
    /\ prog = "fo_test"
    /\ ~fo.built
    /\ fo' = build_state_block(fo)
    /\ UNCHANGED <<prog, solve_call, fp_call, mp, mp_sol, md_fs, md_init, med_tvc, fo_params, pm, kb, mp_lcow>>

DemandProperty ==
    /\ prog = "fo_test"
    /\ fo.built
    /\ \E p \in OnDemandProperties : fo' = demand_property(fo, p)
    /\ UNCHANGED <<prog, solve_call, fp_call, mp, mp_sol, md_fs, md_init, med_tvc, fo_params, pm, kb, mp_lcow>>

(***************************************************************************)
(* FODrawSolutionParameterBlock: components, phases, state block class     *)
(***************************************************************************)
NoFoParams ==
    [built |-> FALSE, component_list |-> {}, solute_set |-> {}, solvent_set |-> {},
     phase_list |-> {}, state_block_class |-> "none"]

FODrawSolutionParameterBlock_mutant_solute_water ==
    [built |-> TRUE,
     component_list |-> {"H2O", "DrawSolution"},
     solute_set |-> {"H2O", "DrawSolution"},
     solvent_set |-> {},
     phase_list |-> {"Liq"},
     state_block_class |-> "FODrawSolutionStateBlock"]

\* the parameter block as the fixture constructs it: H2O is the solvent, the
\* draw solution the solute, one liquid phase
FODrawSolutionParameterBlock ==
    [built |-> TRUE,
     component_list |-> {"H2O", "DrawSolution"},
     solute_set |-> {"DrawSolution"},
     solvent_set |-> {"H2O"},
     phase_list |-> {"Liq"},
     state_block_class |-> "FODrawSolutionStateBlock"]

BuildParameterBlock ==
    /\ prog = "fo_test"
    /\ ~fo_params.built
    /\ fo_params' = FODrawSolutionParameterBlock
    /\ UNCHANGED <<prog, solve_call, fp_call, mp, mp_sol, md_fs, md_init, med_tvc, fo, pm, kb, mp_lcow>>

(***************************************************************************)
(* permian_ST2_MD: build_permian_st2_md, init_system_st2_md and            *)
(* run_permian_st2_md.  Units are the blocks of m.fs.treatment; the event  *)
(* log records, in program order, every Arc created, every expand_arcs,    *)
(* initialize, propagate_state and solve.                                  *)
(***************************************************************************)
Arc(name, src, src_port, dst, dst_port) ==
    [name |-> name, src |-> src, src_port |-> src_port, dst |-> dst, dst_port |-> dst_port]

Ev(kind, name) == [kind |-> kind, name |-> name]

\* the arcs of build_permian_st2_md, in creation order
BuildArcs ==
    << Arc("feed_to_chem_addition", "feed", "feed.outlet",
           "chem_addition", "chem_addition.feed.inlet"),
       Arc("chem_addition_to_ec", "chem_addition", "chem_addition.product.outlet",
           "EC", "EC.feed.inlet"),
       Arc("ec_to_cart_filt", "EC", "EC.product.outlet",
           "cart_filt", "cart_filt.feed.inlet"),
       Arc("cart_filt_to_translator", "cart_filt", "cart_filt.product.outlet",
           "zo_to_sw_feed", "zo_to_sw_feed.inlet"),
       Arc("cart_filt_translated_to_md", "zo_to_sw_feed", "zo_to_sw_feed.outlet",
           "md", "md.feed.inlet"),
       Arc("md_to_product", "md", "md.permeate.outlet",
           "sw_to_nacl_product", "sw_to_nacl_product.inlet"),
       Arc("ec_to_disposal_mix", "EC", "EC.disposal.outlet",
           "disposal_ZO_mixer", "disposal_ZO_mixer.ec_disposal"),
       Arc("cart_filt_to_disposal_mix", "cart_filt", "cart_filt.disposal.outlet",
           "disposal_ZO_mixer", "disposal_ZO_mixer.cart_filt_disposal"),
       Arc("disposal_ZO_mix_to_nacl_translator", "disposal_ZO_mixer",
           "disposal_ZO_mixer.outlet",
           "zo_mix_to_nacl_disposal", "zo_mix_to_nacl_disposal.inlet"),
       Arc("md_disposal_to_nacl_translator", "md", "md.concentrate.outlet",
           "sw_to_nacl_disposal", "sw_to_nacl_disposal.inlet"),
       Arc("disposal_ZO_mix_translated_to_disposal_NaCl_mixer",
           "zo_mix_to_nacl_disposal", "zo_mix_to_nacl_disposal.outlet",
           "disposal_NaCl_mixer", "disposal_NaCl_mixer.zo_mixer"),
       Arc("md_disposal_translated_to_disposal_NaCl_mixer",
           "sw_to_nacl_disposal", "sw_to_nacl_disposal.outlet",
           "disposal_NaCl_mixer", "disposal_NaCl_mixer.md_disposal"),
       Arc("mixer_to_normalized_feed", "disposal_NaCl_mixer", "disposal_NaCl_mixer.outlet",
           "norm_feed", "norm_feed.inlet") >>

\* the arcs run_permian_st2_md adds for the crystallizer and the product
ProductArcs_mutant_loop ==
    << Arc("cryst_product_to_denomalizer", "mec", "mec.unit.outlet",
           "denorm_cryst_product", "denorm_cryst_product.inlet"),
       Arc("md_translator_to_product_NaCl_mixer", "sw_to_nacl_product",
           "sw_to_nacl_product.outlet",
           "product_NaCl_mixer", "product_NaCl_mixer.md_product"),
       Arc("cryst_denomalizer_to_product_NaCl_mixer", "denorm_cryst_product",
           "denorm_cryst_product.outlet",
           "product_NaCl_mixer", "product_NaCl_mixer.cryst_product"),
       Arc("product_NaCl_mixer_to_product", "product_NaCl_mixer",
           "product_NaCl_mixer.outlet",
           "sw_to_nacl_product", "sw_to_nacl_product.inlet") >>

ProductArcs ==
    << Arc("cryst_product_to_denomalizer", "mec", "mec.unit.outlet",
           "denorm_cryst_product", "denorm_cryst_product.inlet"),
       Arc("md_translator_to_product_NaCl_mixer", "sw_to_nacl_product",
           "sw_to_nacl_product.outlet",
           "product_NaCl_mixer", "product_NaCl_mixer.md_product"),
       Arc("cryst_denomalizer_to_product_NaCl_mixer", "denorm_cryst_product",
           "denorm_cryst_product.outlet",
           "product_NaCl_mixer", "product_NaCl_mixer.cryst_product"),
       Arc("product_NaCl_mixer_to_product", "product_NaCl_mixer",
           "product_NaCl_mixer.outlet",
           "product", "product.inlet") >>

\* the inlet ports of the blocks the flowsheet file declares or reads
BuildInletPorts ==
    {"chem_addition.feed.inlet", "EC.feed.inlet", "cart_filt.feed.inlet",
     "zo_to_sw_feed.inlet", "md.feed.inlet", "sw_to_nacl_product.inlet",
     "disposal_ZO_mixer.ec_disposal", "disposal_ZO_mixer.cart_filt_disposal",
     "zo_mix_to_nacl_disposal.inlet", "sw_to_nacl_disposal.inlet",
     "disposal_NaCl_mixer.zo_mixer", "disposal_NaCl_mixer.md_disposal",
     "norm_feed.inlet"}

ProductInletPorts ==
    {"mec.unit.inlet", "denorm_cryst_product.inlet",
     "product_NaCl_mixer.md_product", "product_NaCl_mixer.cryst_product",
     "product.inlet"}

\* the equality constraints that tie the crystallizer inlet to norm_feed.outlet
CrystFeedConstraints ==
    << "cryst_feed_H2O_constraint", "cryst_feed_NaCl_constraint",
       "cryst_feed_temp_constraint", "cryst_feed_pressure_constraint" >>

ArcEvents(arcs) == [i \in DOMAIN arcs |-> Ev("Arc", arcs[i].name)]

NoPm ==
    [pc |-> "start", outcome |-> "running", arcs |-> <<>>, inlet_ports |-> {},
     constraints |-> {}, events |-> <<>>, heat_load_fixed |-> TRUE,
     results |-> NoResults, costing_solve |-> NoResults, last_solve |-> NoResults,
     asserted |-> NoResults]

build_permian_st2_md(p) ==
    [p EXCEPT !.pc = "built",
              !.arcs = BuildArcs,
              !.inlet_ports = BuildInletPorts,
              !.events = ArcEvents(BuildArcs) \o <<Ev("expand_arcs", "m")>>]

\* init_system_st2_md, statement by statement
InitSystemEvents ==
    << Ev("initialize", "feed"),
       Ev("propagate_state", "feed_to_chem_addition"),
       Ev("initialize", "chem_addition"),
       Ev("propagate_state", "chem_addition_to_ec"),
       Ev("initialize", "EC"),
       Ev("propagate_state", "ec_to_cart_filt"),
       Ev("propagate_state", "ec_to_disposal_mix"),
       Ev("initialize", "cart_filt"),
       Ev("propagate_state", "cart_filt_to_translator"),
       Ev("propagate_state", "cart_filt_to_disposal_mix"),
       Ev("initialize", "disposal_ZO_mixer"),
       Ev("propagate_state", "disposal_ZO_mix_to_nacl_translator"),
       Ev("initialize", "zo_mix_to_nacl_disposal"),
       Ev("initialize", "zo_to_sw_feed"),
       Ev("propagate_state", "cart_filt_translated_to_md"),
       Ev("initialize", "md"),
       Ev("propagate_state", "md_to_product"),
       Ev("propagate_state", "md_disposal_to_nacl_translator"),
       Ev("propagate_state", "disposal_ZO_mix_translated_to_disposal_NaCl_mixer"),
       Ev("propagate_state", "md_disposal_translated_to_disposal_NaCl_mixer"),
       Ev("initialize", "disposal_NaCl_mixer"),
       Ev("propagate_state", "mixer_to_normalized_feed"),
       Ev("initialize", "cst") >>

init_system_st2_md(p) ==
    [p EXCEPT !.pc = "initialized", !.events = @ \o InitSystemEvents]

\* assert_optimal_termination(results)
AssertOptimal(p, next_pc) ==
    IF check_optimal_termination(p.results)
    THEN [p EXCEPT !.pc = next_pc, !.asserted = p.results]
    ELSE [p EXCEPT !.pc = "done", !.outcome = "RuntimeError", !.asserted = p.results]

\* results = solver.solve(m); assert_optimal_termination(results)
SolveAndAssert(p, res, next_pc) ==
    IF res = SolverRaised
    THEN [p EXCEPT !.pc = "done", !.outcome = "ValueError",
                   !.events = Append(@, Ev("solve", "m"))]
    ELSE AssertOptimal([p EXCEPT !.results = res,
                                 !.events = Append(@, Ev("solve", "m"))], next_pc)

\* the crystallizer, its feed constraints, the product units and their arcs,
\* and the initialization of the product stream
ProductStreamEvents ==
    <<Ev("initialize", "mec")>>
    \o ArcEvents(ProductArcs)
    \o << Ev("expand_arcs", "m"),
          Ev("initialize", "sw_to_nacl_product"),
          Ev("propagate_state", "cryst_product_to_denomalizer"),
          Ev("initialize", "denorm_cryst_product"),
          Ev("propagate_state", "md_translator_to_product_NaCl_mixer"),
          Ev("propagate_state", "cryst_denomalizer_to_product_NaCl_mixer"),
          Ev("initialize", "product_NaCl_mixer"),
          Ev("propagate_state", "product_NaCl_mixer_to_product"),
          Ev("initialize", "product") >>

add_product_stream(p) ==
    [p EXCEPT !.pc = "product_built",
              !.arcs = @ \o ProductArcs,
              !.inlet_ports = @ \cup ProductInletPorts,
              !.constraints = Range(CrystFeedConstraints),
              !.events = @ \o ProductStreamEvents]

\* add_costing_st2_md(m); results = solver.solve(m); heat_load.fix()
costing_solve(p, res) ==
    IF res = SolverRaised
    THEN [p EXCEPT !.pc = "done", !.outcome = "ValueError",
                   !.events = Append(@, Ev("solve", "m"))]
    ELSE [p EXCEPT !.pc = "costed", !.results = res, !.costing_solve = res,
                   !.heat_load_fixed = TRUE,
                   !.events = Append(@, Ev("solve", "m"))]

\* try: results = solver.solve(m) except ValueError: ...;
\* assert_optimal_termination(results); return m
final_solve(p, res) ==
    LET q == [p EXCEPT !.last_solve = res,
                       !.results = IF res = SolverRaised THEN @ ELSE res,
                       !.events = Append(@, Ev("solve", "m"))]
        r == AssertOptimal(q, "done")
    IN  IF r.outcome = "running" THEN [r EXCEPT !.outcome = "returned"] ELSE r

PermianBuild ==
    /\ prog = "permian"
    /\ pm.pc = "start"
    /\ pm' = build_permian_st2_md(pm)
    /\ UNCHANGED <<prog, solve_call, fp_call, mp, mp_sol, md_fs, md_init, med_tvc, fo, fo_params, kb, mp_lcow>>

PermianInitSystem ==
    /\ prog = "permian"
    /\ pm.pc = "built"
    /\ pm' = init_system_st2_md(pm)
    /\ UNCHANGED <<prog, solve_call, fp_call, mp, mp_sol, md_fs, md_init, med_tvc, fo, fo_params, kb, mp_lcow>>

PermianFirstSolve ==
    /\ prog = "permian"
    /\ pm.pc = "initialized"
    /\ \E res \in SolverResults \cup {SolverRaised} :
          pm' = SolveAndAssert(pm, res, "solved")
    /\ UNCHANGED <<prog, solve_call, fp_call, mp, mp_sol, md_fs, md_init, med_tvc, fo, fo_params, kb, mp_lcow>>

PermianAddProductStream ==
    /\ prog = "permian"
    /\ pm.pc = "solved"
    /\ pm' = add_product_stream(pm)
    /\ UNCHANGED <<prog, solve_call, fp_call, mp, mp_sol, md_fs, md_init, med_tvc, fo, fo_params, kb, mp_lcow>>

PermianSecondSolve ==
    /\ prog = "permian"
    /\ pm.pc = "product_built"
    /\ \E res \in SolverResults \cup {SolverRaised} :
          pm' = SolveAndAssert([pm EXCEPT !.heat_load_fixed = FALSE], res, "solved_unfixed")
    /\ UNCHANGED <<prog, solve_call, fp_call, mp, mp_sol, md_fs, md_init, med_tvc, fo, fo_params, kb, mp_lcow>>

PermianCostingSolve ==
    /\ prog = "permian"
    /\ pm.pc = "solved_unfixed"
    /\ \E res \in SolverResults \cup {SolverRaised} : pm' = costing_solve(pm, res)
    /\ UNCHANGED <<prog, solve_call, fp_call, mp, mp_sol, md_fs, md_init, med_tvc, fo, fo_params, kb, mp_lcow>>

PermianFinalSolve ==
    /\ prog = "permian"
    /\ pm.pc = "costed"
    /\ \E res \in SolverResults \cup {SolverRaised} : pm' = final_solve(pm, res)
    /\ UNCHANGED <<prog, solve_call, fp_call, mp, mp_sol, md_fs, md_init, med_tvc, fo, fo_params, kb, mp_lcow>>

\* the arc object a propagate_state call receives
ArcNamed(p, name) == CHOOSE a \in Range(p.arcs) : a.name = name

\* position of the first full-model solve in the event log, 0 if none yet
FirstSolve(ev) ==
    IF \E i \in DOMAIN ev : ev[i].kind = "solve"
    THEN CHOOSE i \in DOMAIN ev :
            /\ ev[i].kind = "solve"
            /\ \A j \in 1..(i - 1) : ev[j].kind # "solve"
    ELSE 0

InitializedBefore(ev, unit, i) == \E j \in 1..(i - 1) : ev[j] = Ev("initialize", unit)

(***************************************************************************)
(* KBHDP_RPT_3: build_sweep and main, with add_connections, init_system    *)
(* and optimize_rpt3.                                                      *)
(***************************************************************************)
\* an argument left at its default None
NoneArg == -1

Entries == {"build_sweep", "main"}

\* grid_frac_heat in percent, heat_price in cents per kWh
GridFracHeatInputs == {NoneArg, 50}

HeatPriceInputs == {NoneArg, 1}

Objectives == {"LCOT", "LCOW"}

\* the variables optimize_rpt3 fixes or unfixes
OptVars == {"FPC.heat_load", "FPC.hours_storage", "frac_heat_from_grid", "heat_cost_buy"}

ConnectionArcs ==
    << Arc("feed_to_md", "feed", "feed.outlet", "md", "md.feed.inlet"),
       Arc("md_to_product", "md", "md.permeate.outlet", "product", "product.inlet"),
       Arc("md_to_dwi", "md", "md.concentrate.outlet", "dwi", "dwi.unit.inlet") >>

add_connections(k) ==
    [k EXCEPT !.arcs = ConnectionArcs,
              !.events = @ \o ArcEvents(ConnectionArcs) \o <<Ev("expand_arcs", "m")>>]

init_system(k) ==
    [k EXCEPT !.events = @ \o
        << Ev("initialize", "feed"),
           Ev("initialize", "md"),
           Ev("propagate_state", "md_to_product"),
           Ev("initialize", "product"),
           Ev("propagate_state", "md_to_dwi"),
           Ev("initialize", "dwi"),
           Ev("initialize", "FPC") >>]

NoKb ==
    [entry |-> "none", pc |-> "start", outcome |-> "running",
     grid_frac_heat |-> NoneArg, heat_price |-> NoneArg, objective |-> "none",
     arcs |-> <<>>, events |-> <<>>, solves |-> <<>>,
     heat_load_fixed |-> TRUE, costing_added |-> FALSE,
     fixed |-> {}, val |-> [v \in {"frac_heat_from_grid", "heat_cost_buy"} |-> NoneArg],
     dof |-> 0, objectives |-> {}, opt_before |-> {}]

\* one call of solve from the script: the call is logged with the state of
\* heat_load at the time; an exception ends the script
ScriptSolve(k, m, raise_on_failure, res, next_pc) ==
    LET out == solve(m, "None", raise_on_failure, res)
        rec == [m |-> m, raise_on_failure |-> raise_on_failure,
                heat_load_fixed |-> k.heat_load_fixed, costing |-> k.costing_added,
                results |-> res, outcome |-> out.outcome]
    IN  [k EXCEPT !.solves = Append(@, rec),
                  !.pc = IF out.outcome = "return" THEN next_pc ELSE "done",
                  !.outcome = IF out.outcome = "return" THEN @ ELSE out.outcome]

SolveSpec_mutant_lenient ==
    [md |-> [m |-> "m.fs.treatment.md", raise_on_failure |-> TRUE],
     relaxed |-> [m |-> "m", raise_on_failure |-> FALSE],
     full |-> [m |-> "m", raise_on_failure |-> FALSE],
     costing |-> [m |-> "m", raise_on_failure |-> TRUE]]

\* the four solve calls of build_sweep and of main and their arguments
SolveSpec ==
    [md |-> [m |-> "m.fs.treatment.md", raise_on_failure |-> TRUE],
     relaxed |-> [m |-> "m", raise_on_failure |-> FALSE],
     full |-> [m |-> "m", raise_on_failure |-> TRUE],
     costing |-> [m |-> "m", raise_on_failure |-> TRUE]]

\* m = build_system(); add_connections(m); ...; init_system(m, m.fs)
KbBuildAndInit ==
    /\ prog = "kbhdp_flow"
    /\ kb.pc = "start"
    /\ \E e \in Entries, g \in GridFracHeatInputs, h \in HeatPriceInputs, o \in Objectives :
          /\ e = "main" => (g = NoneArg /\ h = NoneArg /\ o = "LCOT")
          /\ kb' = init_system(add_connections(
                      [kb EXCEPT !.entry = e, !.pc = "initialized",
                                 !.grid_frac_heat = g, !.heat_price = h,
                                 !.objective = o]))
    /\ UNCHANGED <<prog, solve_call, fp_call, mp, mp_sol, md_fs, md_init, med_tvc, fo, fo_params, pm, mp_lcow>>

\* build_sweep unfixes heat_load before the MD solve, main after it
KbSolveMd ==
    /\ prog = "kbhdp_flow"
    /\ kb.pc = "initialized"
    /\ \E res \in SolverResults \cup {SolverRaised} :
          kb' = ScriptSolve([kb EXCEPT !.heat_load_fixed =
                                 IF kb.entry = "build_sweep" THEN FALSE ELSE @],
                            SolveSpec.md.m, SolveSpec.md.raise_on_failure, res, "md_solved")
    /\ UNCHANGED <<prog, solve_call, fp_call, mp, mp_sol, md_fs, md_init, med_tvc, fo, fo_params, pm, mp_lcow>>

\* (main: heat_load.unfix();) solve(m, raise_on_failure=False); heat_load.fix()
KbSolveRelaxed ==
    /\ prog = "kbhdp_flow"
    /\ kb.pc = "md_solved"
    /\ \E res \in SolverResults \cup {SolverRaised} :
          LET k == ScriptSolve([kb EXCEPT !.heat_load_fixed = FALSE],
                               SolveSpec.relaxed.m, SolveSpec.relaxed.raise_on_failure,
                               res, "relaxed")
          IN  kb' = IF k.pc = "relaxed" THEN [k EXCEPT !.heat_load_fixed = TRUE] ELSE k
    /\ UNCHANGED <<prog, solve_call, fp_call, mp, mp_sol, md_fs, md_init, med_tvc, fo, fo_params, pm, mp_lcow>>

KbSolveFull ==
    /\ prog = "kbhdp_flow"
    /\ kb.pc = "relaxed"
    /\ \E res \in SolverResults \cup {SolverRaised} :
          kb' = ScriptSolve(kb, SolveSpec.full.m, SolveSpec.full.raise_on_failure,
                            res, "solved")
    /\ UNCHANGED <<prog, solve_call, fp_call, mp, mp_sol, md_fs, md_init, med_tvc, fo, fo_params, pm, mp_lcow>>

\* add_costing(m); solve(m).  The costing package decides which of the costing
\* variables it creates fixed; main ends after this solve
KbAddCostingSolve ==
    /\ prog = "kbhdp_flow"
    /\ kb.pc = "solved"
    /\ \E res \in SolverResults \cup {SolverRaised},
          F \in SUBSET (OptVars \ {"FPC.heat_load"}) :
          LET k == ScriptSolve([kb EXCEPT !.costing_added = TRUE,
                                          !.fixed = F \cup {"FPC.heat_load"}],
                               SolveSpec.costing.m, SolveSpec.costing.raise_on_failure,
                               res, "costed")
          IN  kb' = IF k.pc = "costed" /\ k.entry = "main"
                    THEN [k EXCEPT !.pc = "done", !.outcome = "returned"]
                    ELSE k
    /\ UNCHANGED <<prog, solve_call, fp_call, mp, mp_sol, md_fs, md_init, med_tvc, fo, fo_params, pm, mp_lcow>>

\* Var.unfix(): a fixed variable becomes a degree of freedom
Unfix(k, v) ==
    [k EXCEPT !.fixed = @ \ {v},
              !.dof = IF v \in k.fixed THEN @ + 1 ELSE @]

\* Var.fix(value): a free variable stops being a degree of freedom
FixAt(k, v, value) ==
    [k EXCEPT !.fixed = @ \cup {v},
              !.val = [@ EXCEPT ![v] = value],
              !.dof = IF v \in k.fixed THEN @ ELSE @ - 1]

optimize_rpt3_mutant_keep_storage(k, grid_frac_heat, heat_price, objective) ==
    LET k1 == [k EXCEPT !.objectives = @ \cup {objective}, !.opt_before = k.fixed]
        k2 == IF grid_frac_heat # NoneArg
              THEN FixAt(Unfix(k1, "FPC.heat_load"), "frac_heat_from_grid", grid_frac_heat)
              ELSE k1
        k3 == IF heat_price # NoneArg
              THEN FixAt(Unfix(Unfix(k2, "FPC.heat_load"), "frac_heat_from_grid"),
                         "heat_cost_buy", heat_price)
              ELSE k2
    IN  [k3 EXCEPT !.heat_load_fixed = "FPC.heat_load" \in k3.fixed,
                   !.outcome = IF k3.dof >= 0 THEN "returned" ELSE "AssertionError"]

optimize_rpt3(k, grid_frac_heat, heat_price, objective) ==
    LET k1 == [k EXCEPT !.objectives = @ \cup {objective}, !.opt_before = k.fixed]
        k2 == IF grid_frac_heat # NoneArg
              THEN FixAt(Unfix(k1, "FPC.heat_load"), "frac_heat_from_grid", grid_frac_heat)
              ELSE k1
        k3 == IF heat_price # NoneArg
              THEN FixAt(Unfix(Unfix(Unfix(k2, "FPC.heat_load"), "FPC.hours_storage"),
                               "frac_heat_from_grid"),
                         "heat_cost_buy", heat_price)
              ELSE k2
    IN  [k3 EXCEPT !.heat_load_fixed = "FPC.heat_load" \in k3.fixed,
                   !.outcome = IF k3.dof >= 0 THEN "returned" ELSE "AssertionError"]

\* optimize_rpt3(m, ...); return m.  The model is square (0 degrees of freedom)
\* after the solve that precedes the call
KbOptimize ==
    /\ prog = "kbhdp_flow"
    /\ kb.pc = "costed"
    /\ kb' = optimize_rpt3([kb EXCEPT !.pc = "done"],
                           kb.grid_frac_heat, kb.heat_price, kb.objective)
    /\ UNCHANGED <<prog, solve_call, fp_call, mp, mp_sol, md_fs, md_init, med_tvc, fo, fo_params, pm, mp_lcow>>

(***************************************************************************)
(* The cost expressions of the multiperiod model.  Money is kept exact:    *)
(* 0.096 is 96/1000, a cost is an integer number of units that the         *)
(* operator names, and a quotient is a reduced fraction <<num, den>>.      *)
(***************************************************************************)
cost_battery_power == 75

cost_battery_energy == 50

\* grid cost of one block over its period, in $
GridCosts == {0, 1}

RECURSIVE Gcd(_, _)
Gcd(a, b) == IF b = 0 THEN a ELSE Gcd(b, a % b)

Reduce(q) == LET g == Gcd(q[1], q[2]) IN IF g = 0 THEN q ELSE <<q[1] \div g, q[2] \div g>>

RECURSIVE SumSeq(_)
SumSeq(s) == IF s = <<>> THEN 0 ELSE Head(s) + SumSeq(Tail(s))

\* battery_cost in 1/1000 $ per year
battery_cost(sol) ==
    96 * (cost_battery_power * sol[1]["nameplate_power"]
          + cost_battery_energy * sol[1]["nameplate_energy"])

\* pv_cost in 1/1000 $ per year
pv_cost(sol) == 1040 * sol[1]["pv_size"] * 96 + 9 * sol[1]["pv_size"] * 1000

\* total_cost in 1/(1000 * 365 * 24) $
total_cost(n_time_points, sol, grid_cost) ==
    (battery_cost(sol) + pv_cost(sol)) * n_time_points
    + SumSeq(grid_cost) * 1000 * 365 * 24

\* LCOW = total_cost / ro_capacity / 24 * n_time_points + 0.45: the first term
\* in 1/(1000 * 365 * 24 * ro_capacity) $/m3, the RO term in cents per m3
LCOW(n_time_points, sol, grid_cost) ==
    [cost |-> Reduce(<<total_cost(n_time_points, sol, grid_cost) * n_time_points, 24>>),
     ro_cents |-> 45]

NoLcow == [evaluated |-> FALSE, grid_cost |-> <<>>, total_cost |-> 0,
           LCOW |-> [cost |-> <<0, 1>>, ro_cents |-> 0]]

\* value(mp.LCOW) once the model is solved; the grid cost of each block is an
\* expression of the flowsheet that the solution determines
EvaluateLCOW ==
    /\ prog = "multiperiod"
    /\ mp.status = "built"
    /\ mp_sol # <<>>
    /\ ~mp_lcow.evaluated
    /\ \E grid_cost \in [1..mp.n_time_points -> GridCosts] :
          mp_lcow' = [evaluated |-> TRUE, grid_cost |-> grid_cost,
                      total_cost |-> total_cost(mp.n_time_points, mp_sol, grid_cost),
                      LCOW |-> LCOW(mp.n_time_points, mp_sol, grid_cost)]
    /\ UNCHANGED <<prog, solve_call, fp_call, mp, mp_sol, md_fs, md_init, med_tvc, fo, fo_params, pm, kb>>

\* the units an arc leads to from unit u, directly or through further arcs
RECURSIVE ReachableFrom(_, _)
ReachableFrom(S, arcs) ==
    LET T == S \cup {a.dst : a \in {b \in Range(arcs) : b.src \in S}}
    IN  IF T = S THEN S ELSE ReachableFrom(T, arcs)

Downstream(u, arcs) == ReachableFrom({a.dst : a \in {b \in Range(arcs) : b.src = u}}, arcs)

\* the stream leaving an outlet port arrives, through arcs, at the unit
StreamReaches(port, unit, arcs) ==
    \E a \in Range(arcs) :
        a.src_port = port /\ (a.dst = unit \/ unit \in Downstream(a.dst, arcs))

Init ==
    /\ prog \in Programs
    /\ solve_call = NoSolveCall
    /\ fp_call = NoFpCall
    /\ mp = NoMp
    /\ mp_sol = <<>>
    /\ md_fs = NoFs
    /\ md_init = NoMdInit
    /\ med_tvc = [number_effects |-> number_effects_default,
                  attempted |-> number_effects_default, error |-> NoError]
    /\ fo = NoFo
    /\ fo_params = NoFoParams
    /\ pm = NoPm
    /\ kb = NoKb
    /\ mp_lcow = NoLcow

Next ==
    \/ KBHDP_solve
    \/ FlatPlate_initialize
    \/ CreateMultiperiod
    \/ SolveMultiperiod
    \/ BuildMedMd
    \/ FixDofAndInitialize
    \/ SetNumberEffects
    \/ BuildStateBlock
    \/ DemandProperty
    \/ BuildParameterBlock
    \/ PermianBuild
    \/ PermianInitSystem
    \/ PermianFirstSolve
    \/ PermianAddProductStream
    \/ PermianSecondSolve
    \/ PermianCostingSolve
    \/ PermianFinalSolve
    \/ KbBuildAndInit
    \/ KbSolveMd
    \/ KbSolveRelaxed
    \/ KbSolveFull
    \/ KbAddCostingSolve
    \/ KbOptimize
    \/ EvaluateLCOW

Spec == Init /\ [][Next]_vars
(***************************************************************************)
(* Properties                                                              *)
(***************************************************************************)

\* C1: KBHDP solve: whenever solver.solve gave results, an optimal termination
\* returns the results; a non-optimal one with raise_on_failure raises
\* RuntimeError carrying msg after both infeasibility diagnostics were printed
\* and returns nothing; a non-optimal one without raise_on_failure only prints
\* msg and returns the results.  There is no other outcome.
C1_SolveContract ==
    (solve_call.called /\ solve_call.results # SolverRaised) =>
        LET o == solve_call.out
            r == solve_call.results
            printed == Range(o.printed)
            diagnostics == {"print_infeasible_bounds", "print_close_to_bounds"}
        IN  /\ o.outcome \in {"return", "RuntimeError"}
            /\ check_optimal_termination(r) =>
                  /\ o.outcome = "return"
                  /\ o.ret = r
            /\ (~check_optimal_termination(r) /\ solve_call.raise_on_failure) =>
                  /\ o.outcome = "RuntimeError"
                  /\ o.exc = msg
                  /\ diagnostics \subseteq printed
                  /\ o.ret = NoResults
            /\ (~check_optimal_termination(r) /\ ~solve_call.raise_on_failure) =>
                  /\ o.outcome = "return"
                  /\ o.ret = r
                  /\ msg \in printed
                  /\ diagnostics \cap printed = {}

C1_Witness ==
    /\ solve_call.called
    /\ solve_call.results.termination_condition = "infeasible"
    /\ ~solve_call.raise_on_failure
    /\ solve_call.out.outcome = "return"
    /\ solve_call.out.ret = solve_call.results

\* C2: FlatPlatePySAM.initialize: for every solve result the call obtained, it
\* raises InitializationError exactly when the result is not optimal and
\* otherwise returns None; "Initialization Complete" is logged only after an
\* optimal solve.
C2_InitializeRaisesIffNotOptimal ==
    /\ (fp_call.called /\ fp_call.out.res # NoResults) =>
          /\ fp_call.out.outcome = "InitializationError"
                <=> ~check_optimal_termination(fp_call.out.res)
          /\ check_optimal_termination(fp_call.out.res) => fp_call.out.outcome = "None"
    /\ "Initialization Complete" \in Range(fp_call.out.log) =>
          check_optimal_termination(fp_call.out.res)

C2_Witness ==
    /\ fp_call.called
    /\ fp_call.out.res.termination_condition = "maxIterations"
    /\ fp_call.out.outcome = "InitializationError"
    /\ "Initialization Complete" \notin Range(fp_call.out.log)

\* C3: FlatPlatePySAM.initialize(solver=...): for every value of the solver
\* argument the unit is solved with the selected solver (the default one for
\* None, the given one otherwise) and the call reaches the termination check.
C3_SolverArgumentSelectsSolver ==
    fp_call.called =>
        /\ fp_call.out.opt = (IF fp_call.solver = "None" THEN "default" ELSE fp_call.solver)
        /\ fp_call.out.res # NoResults
        /\ fp_call.out.outcome \in {"None", "InitializationError"}

\* C4: in every solution of a built multiperiod model, for adjacent blocks t and
\* t+1 the state of charge and the energy throughput at the end of t are the
\* initial ones of t+1 and the three design sizes agree; hence the design sizes
\* of every block are those of block 0.
C4_LinkedPeriods ==
    (mp.status = "built" /\ mp_sol # <<>>) =>
        /\ Len(mp_sol) = mp.n_time_points
        /\ \A i \in 1..(Len(mp_sol) - 1) :
              /\ mp_sol[i].state_of_charge = mp_sol[i + 1].initial_state_of_charge
              /\ mp_sol[i].energy_throughput = mp_sol[i + 1].initial_energy_throughput
              /\ mp_sol[i].nameplate_power = mp_sol[i + 1].nameplate_power
              /\ mp_sol[i].nameplate_energy = mp_sol[i + 1].nameplate_energy
              /\ mp_sol[i].pv_size = mp_sol[i + 1].pv_size
        /\ \A i \in 1..Len(mp_sol) :
              /\ mp_sol[i].nameplate_power = mp_sol[1].nameplate_power
              /\ mp_sol[i].nameplate_energy = mp_sol[1].nameplate_energy
              /\ mp_sol[i].pv_size = mp_sol[1].pv_size

C4_Witness ==
    /\ mp.status = "built"
    /\ mp.n_time_points = 3
    /\ Len(mp_sol) = 3
    /\ mp_sol[3].pv_size = 1
    /\ mp_sol[1].state_of_charge = 1
    /\ mp_sol[2].state_of_charge = 0
    /\ mp_sol[3].initial_state_of_charge = 0

\* C5: create_multiperiod_pv_battery_model yields, for every n_time_points >= 1,
\* a model with exactly n_time_points blocks, block t built with GHI[t] and
\* elec_price[t].
C5_BlocksForEveryNTimePoints ==
    mp.status # "none" =>
        /\ mp.status = "built"
        /\ Len(mp.blocks) = mp.n_time_points
        /\ \A i \in 1..mp.n_time_points :
              /\ mp.blocks[i].GHI = mp.GHI[i]
              /\ mp.blocks[i].elec_price = mp.elec_price[i]

\* C6: fix_dof_and_initialize completes on every flowsheet that
\* build_med_md_flowsheet returns, for phase 'processing' and 'refilling'
\* alike: every component it reads exists, and the units are initialized in the
\* order MED, S1, VAGMD, M1, S2.
C6_InitializesEveryPhase ==
    md_init.called =>
        /\ md_init.outcome = "ok"
        /\ md_init.missing = {}
        /\ md_init.initialized = <<"med", "S1", "vagmd", "M1", "S2">>

\* C7: setting number_effects to a value outside its domain raises ValueError
\* naming the parameter and the domain, and the parameter keeps its previous
\* value; a value of the domain is stored.
C7_NumberEffectsDomain ==
    [][ med_tvc' # med_tvc =>
          IF med_tvc'.attempted \in number_effects_domain
          THEN /\ med_tvc'.number_effects = med_tvc'.attempted
               /\ med_tvc'.error = NoError
          ELSE /\ med_tvc'.number_effects = med_tvc.number_effects
               /\ med_tvc'.error.type = "ValueError"
               /\ med_tvc'.error.param = "fs.med_tvc.number_effects"
               /\ med_tvc'.error.domain = "fs.med_tvc.number_effects_domain"
               /\ med_tvc'.error.value = med_tvc'.attempted ]_vars

C7_Witness ==
    /\ med_tvc.attempted = 100
    /\ med_tvc.error.type = "ValueError"
    /\ med_tvc.number_effects = 14

\* C10: right after build_state_block only the three state variables exist on
\* the FO draw-solution state block and no on-demand property is constructed;
\* every on-demand property that was demanded is constructed.
C10_LazyProperties ==
    fo.built =>
        /\ StateVars \subseteq fo.constructed
        /\ fo.demanded = {} => fo.constructed = StateVars
        /\ fo.demanded \subseteq fo.constructed
        /\ fo.constructed \subseteq StateVars \cup OnDemandProperties

C10_Witness ==
    /\ fo.built
    /\ fo.demanded = {"flow_vol_phase"}
    /\ "flow_vol_phase" \in fo.constructed
    /\ "cp_mass_phase" \notin fo.constructed

\* C11: FODrawSolutionParameterBlock declares no component other than H2O and
\* DrawSolution, H2O is not a solute, the solvent set holds nothing but H2O, the
\* only phase is Liq, and its state block class is FODrawSolutionStateBlock.
C11_ParameterBlockSets ==
    fo_params.built =>
        /\ fo_params.component_list \subseteq {"H2O", "DrawSolution"}
        /\ "H2O" \notin fo_params.solute_set
        /\ fo_params.solvent_set \subseteq {"H2O"}
        /\ fo_params.phase_list \subseteq {"Liq"}
        /\ fo_params.state_block_class = "FODrawSolutionStateBlock"

C11_Witness ==
    /\ fo_params.built
    /\ "DrawSolution" \in fo_params.component_list
    /\ "H2O" \in fo_params.solvent_set
    /\ "Liq" \in fo_params.phase_list

\* C12: run_permian_st2_md returns the model only if the last solve (the one
\* after heat_load is fixed again) terminated optimally: the final
\* assert_optimal_termination examines the result of that last solve, also when
\* that solve raised ValueError, and never the result of the costing solve.
C12_FinalAssertExaminesLastSolve ==
    (pm.pc = "done" /\ pm.last_solve # NoResults) =>
        /\ pm.asserted = pm.last_solve
        /\ pm.outcome = "returned" => check_optimal_termination(pm.last_solve)

\* C13: in the permian initialization every propagate_state(arc) comes after the
\* initialization of the unit owning the arc's source port, and every unit that
\* is the destination of an arc propagated before the first full-model solve
\* (sw_to_nacl_disposal and norm_feed included) is initialized before that solve.
C13_PropagateAfterInitialize ==
    LET ev == pm.events
        s == FirstSolve(ev)
    IN  s > 0 =>
          /\ \A i \in DOMAIN ev : ev[i].kind = "propagate_state" =>
                InitializedBefore(ev, ArcNamed(pm, ev[i].name).src, i)
          /\ \A i \in 1..(s - 1) : ev[i].kind = "propagate_state" =>
                InitializedBefore(ev, ArcNamed(pm, ev[i].name).dst, s)

\* C14: KBHDP init_system propagates state along each of the three arcs that
\* add_connections creates (feed_to_md, md_to_product, md_to_dwi) exactly once,
\* after the arc's source unit was initialized and before its destination unit
\* is initialized.
C14_EachArcPropagatedOnce ==
    LET ev == kb.events
    IN  kb.pc # "start" =>
          \A n \in {"feed_to_md", "md_to_product", "md_to_dwi"} :
             /\ Cardinality({i \in DOMAIN ev : ev[i] = Ev("propagate_state", n)}) = 1
             /\ \A i \in DOMAIN ev : ev[i] = Ev("propagate_state", n) =>
                   /\ InitializedBefore(ev, ArcNamed(kb, n).src, i)
                   /\ ~InitializedBefore(ev, ArcNamed(kb, n).dst, i)
                   /\ \E j \in DOMAIN ev : j > i /\ ev[j] = Ev("initialize", ArcNamed(kb, n).dst)

\* optimize_rpt3 has run on a model with 0 degrees of freedom in which heat_load,
\* hours_storage and frac_heat_from_grid were fixed and heat_cost_buy was free
OptimizeRanFromSquareModel ==
    /\ kb.entry = "build_sweep" /\ kb.pc = "done" /\ kb.objectives # {}
    /\ kb.opt_before = {"FPC.heat_load", "FPC.hours_storage", "frac_heat_from_grid"}

\* the state optimize_rpt3 leaves behind in its three one-argument cases, with
\* grid_dof the degrees of freedom left when only grid_frac_heat is given
OptimizeEffect(grid_dof) ==
    /\ (kb.grid_frac_heat # NoneArg /\ kb.heat_price = NoneArg) =>
          /\ kb.fixed = {"FPC.hours_storage", "frac_heat_from_grid"}
          /\ kb.val["frac_heat_from_grid"] = kb.grid_frac_heat
          /\ kb.dof = grid_dof
          /\ kb.outcome = "returned"
    /\ (kb.grid_frac_heat = NoneArg /\ kb.heat_price # NoneArg) =>
          /\ kb.fixed = {"heat_cost_buy"}
          /\ kb.val["heat_cost_buy"] = kb.heat_price
          /\ kb.dof = 2
          /\ kb.outcome = "returned"
    /\ (kb.grid_frac_heat = NoneArg /\ kb.heat_price = NoneArg) =>
          /\ kb.fixed = kb.opt_before
          /\ kb.val = NoKb.val
          /\ kb.dof = 0
          /\ kb.outcome = "returned"

C16_GridFracStaysFixed ==
    (kb.entry = "build_sweep" /\ kb.pc = "done" /\ kb.objectives # {}
        /\ kb.outcome = "returned" /\ kb.grid_frac_heat # NoneArg) =>
        /\ "frac_heat_from_grid" \in kb.fixed
        /\ kb.val["frac_heat_from_grid"] = kb.grid_frac_heat

\* the solve discipline of build_sweep and main over the logged solves, with
\* unfixed_solves the positions of the solves run while heat_load is unfixed
SolveDiscipline(unfixed_solves) ==
    LET sv == kb.solves
        Optimal(i) == check_optimal_termination(sv[i].results)
    IN  /\ \A i \in DOMAIN sv :
              /\ sv[i].raise_on_failure = FALSE <=> i = 2
              /\ sv[i].heat_load_fixed = FALSE <=> i \in unfixed_solves
              /\ sv[i].m = (IF i = 1 THEN "m.fs.treatment.md" ELSE "m")
              /\ (i # 2 /\ sv[i].results # SolverRaised /\ ~Optimal(i)) =>
                    (sv[i].outcome = "RuntimeError" /\ kb.outcome = "RuntimeError"
                        /\ Len(sv) = i)
              /\ (i = 2 /\ sv[i].results # SolverRaised) => sv[i].outcome = "return"
              /\ sv[i].costing => (i = 4 /\ Optimal(1) /\ Optimal(3))
        /\ kb.costing_added => (Len(sv) = 4 /\ Optimal(3))
        /\ (kb.pc = "done" /\ kb.outcome = "returned") =>
              (Len(sv) = 4 /\ Optimal(1) /\ Optimal(3) /\ Optimal(4))

\* C17 (as stated): in build_sweep and in main only the first full-model solve
\* may fail without aborting; heat_load is unfixed for that solve only and fixed
\* for every other solve; a non-optimal MD solve, full solve after the re-fix or
\* solve after add_costing raises RuntimeError; add_costing runs only after an
\* optimal full-model solve and a model is returned only if those three solves
\* were optimal.
C17_AsStated == SolveDiscipline({2})

\* C17 (amended): as above, except that build_sweep unfixes heat_load before the
\* MD sub-model solve, so there heat_load is unfixed during the first two solves;
\* in main it is unfixed during the first full-model solve only.
C17_SolveDiscipline ==
    SolveDiscipline(IF kb.entry = "build_sweep" THEN {1, 2} ELSE {2})

C17_Witness ==
    /\ kb.entry = "build_sweep" /\ kb.pc = "done" /\ kb.outcome = "returned"
    /\ Len(kb.solves) = 4
    /\ ~check_optimal_termination(kb.solves[2].results)
    /\ ~kb.solves[1].heat_load_fixed /\ kb.solves[3].heat_load_fixed

\* C18: for every n_time_points the multiperiod LCOW is the levelized cost:
\* total_cost (annualized battery and PV cost times n_time_points/(365*24) plus
\* the grid cost of every block once) divided by the water produced in those
\* hours, ro_capacity * n_time_points / 24, plus the RO contribution 0.45.
C18_LCOWIsLevelized ==
    mp_lcow.evaluated =>
        /\ mp_lcow.total_cost =
              (battery_cost(mp_sol) + pv_cost(mp_sol)) * mp.n_time_points
              + SumSeq(mp_lcow.grid_cost) * 1000 * 365 * 24
        /\ mp_lcow.LCOW.cost = Reduce(<<mp_lcow.total_cost * 24, mp.n_time_points>>)
        /\ mp_lcow.LCOW.ro_cents = 45

\* the stream wiring of the returned Permian ST2 model, with ports the inlet
\* ports required to be the destination of exactly one arc
PermianWiring(ports) ==
    LET arcs == pm.arcs
        ev == pm.events
        chain == <<"feed", "chem_addition", "EC", "cart_filt", "zo_to_sw_feed", "md",
                   "product">>
    IN  /\ \A i \in 1..(Len(chain) - 1) : chain[i + 1] \in Downstream(chain[i], arcs)
        /\ \A port \in {"EC.disposal.outlet", "cart_filt.disposal.outlet",
                        "md.concentrate.outlet"} :
              StreamReaches(port, "disposal_NaCl_mixer", arcs)
        /\ "norm_feed" \in Downstream("disposal_NaCl_mixer", arcs)
        /\ \A port \in ports :
              Cardinality({i \in DOMAIN arcs : arcs[i].dst_port = port}) = 1
        /\ \A i \in DOMAIN ev : ev[i].kind = "Arc" =>
              \E j \in DOMAIN ev : j > i /\ ev[j].kind = "expand_arcs"
        /\ \A a \in Range(arcs) : a.src \notin Downstream(a.src, arcs)

\* C19 (as stated): after run_permian_st2_md there is a path of arcs from feed to
\* product through chem_addition, EC, cart_filt, the ZO-to-SW translator and MD in
\* this order; the EC and cartridge-filter disposal streams and the MD
\* concentrate reach disposal_NaCl_mixer and then norm_feed; every inlet port is
\* the destination of exactly one arc; every arc is followed by an expand_arcs;
\* the arc graph has no cycle.
C19_AsStated ==
    (pm.pc = "done" /\ pm.outcome = "returned") => PermianWiring(pm.inlet_ports)

\* C19 (amended): as above for every inlet port except mec.unit.inlet, which no
\* arc reaches: the crystallizer inlet is tied to norm_feed.outlet by the four
\* cryst_feed equality constraints instead.
C19_StreamWiring ==
    (pm.pc = "done" /\ pm.outcome = "returned") =>
        /\ PermianWiring(pm.inlet_ports \ {"mec.unit.inlet"})
        /\ \A a \in Range(pm.arcs) : a.dst_port # "mec.unit.inlet"
        /\ pm.constraints = Range(CrystFeedConstraints)

C19_Witness ==
    /\ pm.pc = "done" /\ pm.outcome = "returned"
    /\ Len(pm.arcs) = 17
    /\ "mec.unit.inlet" \in pm.inlet_ports
    /\ "product" \in Downstream("feed", pm.arcs)

====
